---- MODULE Spec2Model ----
(***************************************************************************)
(* A model of command_line_lint.py: the run of main() (environment report, *)
(* history loader, the four report sections) as a state machine, and the   *)
(* pure helpers (loader filter, favorites ranking, alias lint, rename      *)
(* lint, shellcheck de-duplication loop) as operators applied to inputs    *)
(* drawn from bounded sets.                                                *)
(*                                                                         *)
(* Text is a sequence of one-character strings; a path or a subprocess     *)
(* option name may be one element of the sequence where only equality and  *)
(* containment of whole names are used by the code.                        *)
(***************************************************************************)
EXTENDS Integers, Sequences, FiniteSets, TLC

VARIABLES
    argv,           \* sys.argv
    environ,        \* os.environ: a function from the set variables to text
    files,          \* the paths for which os.path.isfile is true
    pc,             \* position of main()
    history_file,   \* the path the last _history_file() call resolved
    commands,       \* the Command Sequence built by main()
    sections,       \* report sections whose header has been printed, in order
    warns,          \* number of lines printed by _warn
    tips,           \* tags of the lines printed by _tip, in order
    exit_status,    \* process exit status (-1 while running)
    error,          \* name of the exception that ended the run, "" if none
    subproc_failed, \* a check_output call of a lint has raised
    stats,          \* the lines printed by _print_command_stats, in order
    sc_report,      \* what report_shellcheck printed after its header
    fin,            \* input of a helper under test
    fout            \* its result

vars == <<argv, environ, files, pc, history_file, commands, sections, warns,
          tips, exit_status, error, subproc_failed, stats, sc_report, fin, fout>>

mainVars == <<argv, environ, files, history_file, commands, sections, warns,
              tips, exit_status, error, subproc_failed, stats, sc_report>>

(***************************************************************************)
(* Bounds of the model.                                                    *)
(***************************************************************************)
MaxPipeLines == 1
MaxLines == 3
MaxFavCmds == 4
MaxArgLen == 2
MaxAliasLen == 4
MaxParagraphs == 3

(***************************************************************************)
(* Program constants.                                                      *)
(***************************************************************************)
NUM_COMMANDS == 5
NUM_WITH_ARGUMENTS == 10
NUM_SHELLCHECK == 10
HISTORY_FLOOR == 5000
ALIAS_RATE == 20
IGNORE_LEN == 4

(***************************************************************************)
(* Python text primitives.                                                 *)
(***************************************************************************)
Whitespace == {" ", "\t", "\n"}

Min(a, b) == IF a < b THEN a ELSE b

RECURSIVE lstrip(_)
lstrip(s) == IF s # <<>> /\ Head(s) \in Whitespace THEN lstrip(Tail(s)) ELSE s

RECURSIVE rstrip(_)
rstrip(s) ==
    IF s # <<>> /\ s[Len(s)] \in Whitespace
    THEN rstrip(SubSeq(s, 1, Len(s) - 1))
    ELSE s

\* str.strip()
strip(s) == rstrip(lstrip(s))

\* index of the first whitespace of t, Len(t)+1 when it has none
TokenEnd(t) ==
    CHOOSE n \in 1..(Len(t) + 1) :
        /\ (n = Len(t) + 1 \/ t[n] \in Whitespace)
        /\ \A k \in 1..(n - 1) : t[k] \notin Whitespace

\* str.split() with no separator: the maximal runs of non-whitespace
RECURSIVE split(_)
split(s) ==
    LET t == lstrip(s) IN
    IF t = <<>> THEN <<>>
    ELSE <<SubSeq(t, 1, TokenEnd(t) - 1)>> \o split(SubSeq(t, TokenEnd(t), Len(t)))

\* sep.join(toks)
RECURSIVE join(_, _)
join(sep, toks) ==
    IF toks = <<>> THEN <<>>
    ELSE IF Len(toks) = 1 THEN toks[1]
    ELSE toks[1] \o sep \o join(sep, Tail(toks))

\* sub in s
contains(sub, s) ==
    \E i \in 0..(Len(s) - Len(sub)) : SubSeq(s, i + 1, i + Len(sub)) = sub

\* s.startswith(p)
startswith(s, p) == Len(p) <= Len(s) /\ SubSeq(s, 1, Len(p)) = p

\* str.split(sep) for a one-character separator: empty fields are kept
RECURSIVE split_on(_, _)
split_on(s, sep) ==
    IF \A k \in DOMAIN s : s[k] # sep THEN <<s>>
    ELSE LET n == CHOOSE n \in DOMAIN s :
                      s[n] = sep /\ \A k \in 1..(n - 1) : s[k] # sep
         IN <<SubSeq(s, 1, n - 1)>> \o split_on(SubSeq(s, n + 1, Len(s)), sep)

\* one byte as repr(bytes) shows it, inside the delimiter q
ReprByte(c, q) ==
    IF c = "\\" THEN <<"\\", "\\">>
    ELSE IF c = "\n" THEN <<"\\", "n">>
    ELSE IF c = "\t" THEN <<"\\", "t">>
    ELSE IF c = q THEN <<"\\", c>>
    ELSE <<c>>

RECURSIVE ReprBody(_, _)
ReprBody(b, q) ==
    IF b = <<>> THEN <<>> ELSE ReprByte(Head(b), q) \o ReprBody(Tail(b), q)

\* str(b) of a bytes object b under Python 3: its repr, b'...'
bytes_str(b) ==
    LET hasSingle == \E k \in DOMAIN b : b[k] = "'"
        hasDouble == \E k \in DOMAIN b : b[k] = "\""
        q == IF hasSingle /\ ~hasDouble THEN "\"" ELSE "'"
    IN <<"b", q>> \o ReprBody(b, q) \o <<q>>

Digits == {"0", "1", "2", "3", "4", "5", "6", "7", "8", "9"}

DigitVal(c) ==
    CASE c = "0" -> 0 [] c = "1" -> 1 [] c = "2" -> 2 [] c = "3" -> 3
      [] c = "4" -> 4 [] c = "5" -> 5 [] c = "6" -> 6 [] c = "7" -> 7
      [] c = "8" -> 8 [] c = "9" -> 9 [] OTHER -> 0

RECURSIVE DigitsVal(_)
DigitsVal(s) ==
    IF s = <<>> THEN 0
    ELSE 10 * DigitsVal(SubSeq(s, 1, Len(s) - 1)) + DigitVal(s[Len(s)])

\* int(s) of a text: surrounding whitespace and one sign are accepted, then
\* digits only; anything else raises ValueError
int(s) ==
    LET t == strip(s)
        signed == t # <<>> /\ Head(t) \in {"+", "-"}
        d == IF signed THEN Tail(t) ELSE t
    IN IF d # <<>> /\ \A k \in DOMAIN d : d[k] \in Digits
       THEN [raised |-> "",
             val |-> IF signed /\ Head(t) = "-" THEN 0 - DigitsVal(d) ELSE DigitsVal(d)]
       ELSE [raised |-> "ValueError", val |-> 0]

(***************************************************************************)
(* collections.Counter                                                     *)
(***************************************************************************)
\* the distinct elements of s in first-encountered order (dict insertion order)
RECURSIVE Keys(_)
Keys(s) ==
    IF s = <<>> THEN <<>>
    ELSE LET r == Keys(SubSeq(s, 1, Len(s) - 1))
             x == s[Len(s)]
         IN IF \E i \in DOMAIN r : r[i] = x THEN r ELSE Append(r, x)

CountOf(x, s) == Cardinality({i \in DOMAIN s : s[i] = x})

\* Counter(s).items(): (key, count) in insertion order
Counter(s) ==
    [i \in 1..Len(Keys(s)) |-> [key |-> Keys(s)[i], count |-> CountOf(Keys(s)[i], s)]]

RemoveAt(s, i) == SubSeq(s, 1, i - 1) \o SubSeq(s, i + 1, Len(s))

\* a sort by count that puts the last of equal counts first: the ranking
\* C8 excludes
RECURSIVE SortDescLastFirst(_)
SortDescLastFirst(items) ==
    IF items = <<>> THEN <<>>
    ELSE LET i == CHOOSE i \in DOMAIN items :
                      /\ \A j \in DOMAIN items : items[j].count <= items[i].count
                      /\ \A j \in (i + 1)..Len(items) : items[j].count < items[i].count
         IN <<items[i]>> \o SortDescLastFirst(RemoveAt(items, i))

\* sorted(items, key=count, reverse=True): stable, equal counts keep their order
RECURSIVE SortDesc(_)
SortDesc(items) ==
    IF items = <<>> THEN <<>>
    ELSE LET i == CHOOSE i \in DOMAIN items :
                      /\ \A j \in DOMAIN items : items[j].count <= items[i].count
                      /\ \A j \in 1..(i - 1) : items[j].count < items[i].count
         IN <<items[i]>> \o SortDesc(RemoveAt(items, i))

\* Counter.most_common(n) = heapq.nlargest(n, items, key=count)
most_common(items, n) == SubSeq(SortDesc(items), 1, Min(n, Len(items)))

(***************************************************************************)
(* Environment and shell.                                                  *)
(***************************************************************************)
\* os.environ.get(var, default)
env_get(var, default) == IF var \in DOMAIN environ THEN environ[var] ELSE default

\* os.path.basename(p): what follows the last "/"
basename(p) ==
    LET slashes == {k \in DOMAIN p : p[k] = "/"}
        last == IF slashes = {} THEN 0 ELSE CHOOSE k \in slashes : \A j \in slashes : j <= k
    IN SubSeq(p, last + 1, Len(p))

\* os.path.join(a, b)
path_join(a, b) ==
    IF b # <<>> /\ Head(b) = "/" THEN b
    ELSE IF a = <<>> \/ a[Len(a)] = "/" THEN a \o b
    ELSE a \o <<"/">> \o b

\* os.path.expanduser('~')
Home == <<"/", "home">>

\* _shell() raises TypeError when SHELL is unset: os.path.basename(None)
ShellRaises == "SHELL" \notin DOMAIN environ

_shell == IF ShellRaises THEN <<>> ELSE basename(environ["SHELL"])

BashLike == {<<"bash">>, <<"sh">>}

_standardize(cmd) == join(<<" ">>, split(cmd))

_is_in_histignore(cmd) ==
    LET entries == split_on(env_get("HISTIGNORE", <<>>), ":")
    IN \E k \in DOMAIN entries : entries[k] = _standardize(cmd)

(***************************************************************************)
(* History loader.                                                         *)
(***************************************************************************)
\* stream.readlines(): every line keeps its line terminator
readlines(content) == [i \in DOMAIN content |-> content[i] \o <<"\n">>]

\* the list comprehension of main()
load_commands(lines) ==
    LET kept == SelectSeq(lines, LAMBDA cmd : strip(cmd) # <<>> /\ ~startswith(cmd, <<"#">>))
    IN [i \in DOMAIN kept |-> strip(kept[i])]

(***************************************************************************)
(* Frequency reports.                                                      *)
(***************************************************************************)
\* the line _print_command_stats prints; its percent column is
\* round(100 * count / total, 1), a function of the two numbers kept here
_print_command_stats(cmd, count, total) ==
    [cmd |-> cmd, count |-> count, total |-> total]

\* the lines report_favorites prints after its header
report_favorites(cmds, top_n) ==
    LET with_args == SelectSeq(cmds, LAMBDA cmd : contains(<<" ">>, cmd))
        prefixes == [i \in DOMAIN with_args |-> split(with_args[i])[1]]
        top == most_common(Counter(prefixes), top_n)
    IN [i \in DOMAIN top |-> _print_command_stats(top[i].key, top[i].count, Len(cmds))]

(***************************************************************************)
(* Lints on one command.                                                   *)
(***************************************************************************)
\* the characters re.match(r'\w', ...) accepts
WordChars ==
    Digits \cup {"_"} \cup
    {"a", "b", "c", "d", "e", "f", "g", "h", "i", "j", "k", "l", "m",
     "n", "o", "p", "q", "r", "s", "t", "u", "v", "w", "x", "y", "z"}

RECURSIVE Initials(_)
Initials(words) ==
    IF words = <<>> THEN <<>>
    ELSE (IF Head(words)[1] \in WordChars THEN <<Head(words)[1]>> ELSE <<>>)
         \o Initials(Tail(words))

\* alias is the outcome of check_output([_shell(), '-i', '-c', 'alias']):
\* ok = FALSE when it raises, out = the bytes it returns
_lint_command_alias(cmd, count, total, alias) ==
    IF ~alias.ok
    THEN [raised |-> "CalledProcessError", fired |-> FALSE, suggestion |-> <<>>]
    ELSE IF \/ contains(cmd, bytes_str(alias.out))
            \/ count < 2
            \/ total > ALIAS_RATE * count
            \/ ~contains(<<" ">>, cmd)
         THEN [raised |-> "", fired |-> FALSE, suggestion |-> <<>>]
         ELSE [raised |-> "", fired |-> TRUE, suggestion |-> Initials(split(cmd))]

\* _lint_command_ignore: the tip it prints ("" for none) and what it returns
_lint_command_ignore(cmd, count, total) ==
    IF Len(cmd) >= IGNORE_LEN \/ count < 2 \/ total > ALIAS_RATE * count
    THEN [tip |-> "", fired |-> FALSE]
    ELSE IF _shell \in BashLike THEN [tip |-> "HISTIGNORE", fired |-> TRUE]
    ELSE IF _shell = <<"zsh">> THEN [tip |-> "HISTORY_IGNORE", fired |-> FALSE]
    ELSE [tip |-> "", fired |-> FALSE]

_lint_command_cd_home(cmd) ==
    _standardize(cmd) \in {<<"c", "d", " ", "~">>,
                           <<"c", "d", " ", "~", "/">>,
                           <<"c", "d", " ", "$", "H", "O", "M", "E">>}

\* difflib.SequenceMatcher(a=a, b=b).find_longest_match(0, len(a), 0, len(b))
\* for texts below the autojunk length: the longest common block, of those
\* the one starting earliest in a, of those the one starting earliest in b;
\* (0, 0, 0) when nothing matches.  Positions count from 0.
find_longest_match(a, b) ==
    LET blocks == {m \in (0..Len(a)) \X (0..Len(b)) \X (1..Min(Len(a), Len(b))) :
                      /\ m[1] + m[3] <= Len(a)
                      /\ m[2] + m[3] <= Len(b)
                      /\ SubSeq(a, m[1] + 1, m[1] + m[3]) = SubSeq(b, m[2] + 1, m[2] + m[3])}
    IN IF blocks = {} THEN [a |-> 0, b |-> 0, size |-> 0]
       ELSE LET best == CHOOSE m \in blocks :
                            \A o \in blocks :
                                \/ o[3] < m[3]
                                \/ (o[3] = m[3] /\ m[1] < o[1])
                                \/ (o[3] = m[3] /\ m[1] = o[1] /\ m[2] <= o[2])
            IN [a |-> best[1], b |-> best[2], size |-> best[3]]

\* _lint_command_rename: whether it fires, and the command its tip proposes
_lint_command_rename(cmd) ==
    LET tokens == split(cmd)
        none == [fired |-> FALSE, shown |-> <<>>]
    IN IF Len(tokens) # 3 \/ tokens[1] \notin {<<"m", "v">>, <<"c", "p">>} THEN none
       ELSE LET prefix == tokens[1]
                arg1 == tokens[2]
                arg2 == tokens[3]
                match == find_longest_match(arg1, arg2)
                new_cmd == SubSeq(arg1, match.a + 1, match.a + match.size)
                           \o <<"{">> \o SubSeq(arg1, match.a + match.size + 1, Len(arg1))
                           \o <<",">> \o SubSeq(arg2, match.b + match.size + 1, Len(arg2))
                           \o <<"}">>
            IN IF match.a = 0 /\ match.b = 0 /\ 5 * Len(new_cmd) <= 4 * Len(cmd)
               THEN [fired |-> TRUE, shown |-> prefix \o <<" ">> \o new_cmd]
               ELSE none

(***************************************************************************)
(* Shellcheck paragraphs.                                                  *)
(***************************************************************************)
\* the four-digit codes a paragraph may hold; any other element of a
\* paragraph is text the pattern SC([0-9]{4}): does not match
Codes == {"2006", "2046"}

\* re.findall(r"SC([0-9]{4}):", error)
findall(paragraph) == SelectSeq(paragraph, LAMBDA c : c \in Codes)

SeqToSet(s) == {s[k] : k \in DOMAIN s}

\* one iteration of the loop of report_shellcheck
sc_step(old_errors, paragraph, top_n) ==
    LET errors == findall(paragraph)
        fresh == SelectSeq(errors, LAMBDA cc : cc \notin old_errors)
        new_errors == SubSeq(fresh, 1, Min(top_n, Len(fresh)))
    IN IF new_errors # <<>>
       THEN [old_errors |-> old_errors \cup SeqToSet(new_errors), printed |-> TRUE]
       ELSE [old_errors |-> old_errors, printed |-> FALSE]

\* the whole loop: the paragraphs it prints, in order
RECURSIVE sc_loop(_, _, _)
sc_loop(old_errors, paragraphs, top_n) ==
    IF paragraphs = <<>> THEN <<>>
    ELSE LET r == sc_step(old_errors, Head(paragraphs), top_n)
         IN (IF r.printed THEN <<Head(paragraphs)>> ELSE <<>>)
            \o sc_loop(r.old_errors, Tail(paragraphs), top_n)

(***************************************************************************)
(* Outcome of a piece of code that may raise: the exception ("" for none), *)
(* the tips and warnings printed before it ended, and whether a            *)
(* check_output call raised.                                               *)
(***************************************************************************)
Ok(t) == [raised |-> "", tips |-> t, warns |-> 0, subfail |-> FALSE]

Raise(e) == [raised |-> e, tips |-> <<>>, warns |-> 0, subfail |-> FALSE]

SubprocessRaise ==
    [raised |-> "CalledProcessError", tips |-> <<>>, warns |-> 0, subfail |-> TRUE]

\* r1 ; r2
Then(r1, r2) ==
    IF r1.raised # "" THEN r1
    ELSE [raised |-> r2.raised, tips |-> r1.tips \o r2.tips,
          warns |-> r1.warns + r2.warns, subfail |-> r1.subfail \/ r2.subfail]

(***************************************************************************)
(* History file resolution.                                                *)
(***************************************************************************)
\* a resolution that consults HISTFILE before the program argument: the
\* order C3 excludes
HistoryPathEnvFirst ==
    IF env_get("HISTFILE", <<>>) # <<>>
    THEN [raised |-> "", path |-> path_join(Home, environ["HISTFILE"])]
    ELSE IF Len(argv) > 1 THEN [raised |-> "", path |-> argv[2]]
    ELSE IF ShellRaises THEN [raised |-> "TypeError", path |-> <<>>]
    ELSE IF _shell = <<"bash">>
         THEN [raised |-> "", path |-> path_join(Home, <<".bash_history">>)]
    ELSE [raised |-> "", path |-> path_join(Home, <<".history">>)]

\* the if/elif chain of _history_file: the path, or the TypeError of _shell()
HistoryPath ==
    IF Len(argv) > 1 THEN [raised |-> "", path |-> argv[2]]
    ELSE IF env_get("HISTFILE", <<>>) # <<>>
         THEN [raised |-> "", path |-> path_join(Home, environ["HISTFILE"])]
    ELSE IF ShellRaises THEN [raised |-> "TypeError", path |-> <<>>]
    ELSE IF _shell = <<"bash">>
         THEN [raised |-> "", path |-> path_join(Home, <<".bash_history">>)]
    ELSE [raised |-> "", path |-> path_join(Home, <<".history">>)]

\* a _history_file that warns about a missing file and returns its path
\* all the same: the behaviour C1 excludes
HistoryFileWithoutExit ==
    IF HistoryPath.raised # ""
    THEN [raised |-> HistoryPath.raised, path |-> <<>>, warns |-> 0]
    ELSE [raised |-> "", path |-> HistoryPath.path,
          warns |-> IF HistoryPath.path \notin files THEN 1 ELSE 0]

\* _history_file(): warns and exits with status 1 when the path is no file
_history_file ==
    LET r == HistoryPath IN
    IF r.raised # "" THEN [raised |-> r.raised, path |-> <<>>, warns |-> 0]
    ELSE IF r.path \notin files THEN [raised |-> "SystemExit", path |-> r.path, warns |-> 1]
    ELSE [raised |-> "", path |-> r.path, warns |-> 0]

(***************************************************************************)
(* Environment lints.  roth is the S_IROTH bit of the history file; shopt  *)
(* and setopt are outcomes of check_output: ok = FALSE when it raises.     *)
(***************************************************************************)
_lint_histfile(roth) ==
    LET h == _history_file IN
    IF h.raised # ""
    THEN [raised |-> h.raised, tips |-> <<>>, warns |-> h.warns, subfail |-> FALSE]
    ELSE Ok(IF roth THEN <<"other_read">> ELSE <<>>)

_lint_histsize ==
    LET histsize_val == int(env_get("HISTSIZE", <<"0">>)) IN
    IF histsize_val.raised # "" THEN Raise(histsize_val.raised)
    ELSE Ok(IF histsize_val.val < HISTORY_FLOOR THEN <<"HISTSIZE">> ELSE <<>>)

\* the body shared by _lint_bash_histfilesize and _lint_zsh_savehist
SizeLint(var) ==
    LET filesize_val == int(env_get(var, <<"0">>))
        histsize_val == int(env_get("HISTSIZE", <<"0">>))
    IN IF filesize_val.raised # "" THEN Raise(filesize_val.raised)
       ELSE Then(Ok(IF filesize_val.val < HISTORY_FLOOR THEN <<var>> ELSE <<>>),
                 IF histsize_val.raised # "" THEN Raise(histsize_val.raised)
                 ELSE Ok(IF filesize_val.val < histsize_val.val
                         THEN <<"larger_than_HISTSIZE">> ELSE <<>>))

_lint_bash_histfilesize == IF _shell \in BashLike THEN SizeLint("HISTFILESIZE") ELSE Ok(<<>>)

_lint_zsh_savehist == IF _shell = <<"zsh">> THEN SizeLint("SAVEHIST") ELSE Ok(<<>>)

_lint_bash_histcontrol ==
    LET histcontrol == env_get("HISTCONTROL", <<>>) IN
    IF _shell \in BashLike
       /\ (contains(<<"ignoredups">>, histcontrol) \/ contains(<<"erasedups">>, histcontrol))
    THEN Ok(<<"HISTCONTROL">>)
    ELSE Ok(<<>>)

_lint_bash_histappend(shopt) ==
    IF _shell \notin BashLike THEN Ok(<<>>)
    ELSE IF ~shopt.ok THEN SubprocessRaise
    ELSE IF ~contains(<<"\\", "t", "o", "n", "\\", "n">>, bytes_str(shopt.out))
         THEN Ok(<<"histappend">>)
    ELSE Ok(<<>>)

_lint_zsh_dupes(setopt) ==
    IF _shell # <<"zsh">> THEN Ok(<<>>)
    ELSE IF ~setopt.ok THEN SubprocessRaise
    ELSE IF ~contains(<<"histignorealldups">>, bytes_str(setopt.out))
         THEN Ok(<<"histignorealldups">>)
    ELSE Ok(<<>>)

_lint_zsh_histappend(setopt) ==
    IF _shell # <<"zsh">> THEN Ok(<<>>)
    ELSE IF ~setopt.ok THEN SubprocessRaise
    ELSE IF contains(<<"noappendhistory">>, bytes_str(setopt.out))
         THEN Ok(<<"appendhistory">>)
    ELSE Ok(<<>>)

\* report_environment after its header and the variable listing
report_environment(roth, shopt, setopt1, setopt2) ==
    Then(_lint_histfile(roth),
    Then(_lint_histsize,
         IF ShellRaises THEN Raise("TypeError")
         ELSE IF _shell \in BashLike
              THEN Then(_lint_bash_histfilesize,
                   Then(_lint_bash_histcontrol, _lint_bash_histappend(shopt)))
         ELSE IF _shell = <<"zsh">>
              THEN Then(_lint_zsh_savehist,
                   Then(_lint_zsh_dupes(setopt1), _lint_zsh_histappend(setopt2)))
         ELSE Ok(<<>>)))

(***************************************************************************)
(* Top-with-arguments and miscellaneous reports.                           *)
(***************************************************************************)
\* the two lints of one listed command
ArgumentLints(cmd, count, total, alias) ==
    IF _is_in_histignore(cmd) THEN Ok(<<>>)
    ELSE LET a == _lint_command_alias(cmd, count, total, alias)
             g == _lint_command_ignore(cmd, count, total)
         IN IF a.raised # "" THEN SubprocessRaise
            ELSE Ok((IF a.fired THEN <<"alias">> ELSE <<>>)
                    \o (IF g.tip # "" THEN <<g.tip>> ELSE <<>>))

\* the for loop of report_commands_with_arguments over the listed commands
RECURSIVE ArgumentsLoop(_, _, _)
ArgumentsLoop(items, total, alias) ==
    IF items = <<>> THEN Ok(<<>>)
    ELSE Then(ArgumentLints(Head(items).key, Head(items).count, total, alias),
              ArgumentsLoop(Tail(items), total, alias))

\* the stat lines the loop has printed when it ends with outcome r
RECURSIVE ArgumentsStats(_, _, _)
ArgumentsStats(items, total, alias) ==
    IF items = <<>> THEN <<>>
    ELSE <<_print_command_stats(Head(items).key, Head(items).count, total)>>
         \o (IF ArgumentLints(Head(items).key, Head(items).count, total, alias).raised # ""
             THEN <<>>
             ELSE ArgumentsStats(Tail(items), total, alias))

\* report_commands_with_arguments after its header: the loop, then the tip
\* whose two averages divide by len(commands)
report_commands_with_arguments(cmds, top_n, alias) ==
    Then(ArgumentsLoop(most_common(Counter(cmds), top_n), Len(cmds), alias),
         IF Len(cmds) = 0 THEN Raise("ZeroDivisionError") ELSE Ok(<<"tend_toward">>))

\* report_miscellaneous: any() prints the first command a lint fires on
report_miscellaneous(cmds) ==
    Ok((IF \E k \in DOMAIN cmds : _lint_command_rename(cmds[k]).fired
        THEN <<"rename">> ELSE <<>>)
       \o (IF \E k \in DOMAIN cmds : _lint_command_cd_home(cmds[k])
           THEN <<"cd_home">> ELSE <<>>))

\* report_shellcheck after its header; sc is what the linter did
report_shellcheck(sc, top_n) ==
    IF ~sc.installed THEN <<<<"Shellcheck not installed">>>>
    ELSE IF sc.clean THEN <<<<"Nothing to report.">>>>
    ELSE sc_loop({}, sc.paragraphs, top_n)

(***************************************************************************)
(* Input domains.                                                          *)
(***************************************************************************)
\* all sequences over S of length at most n
RECURSIVE SeqsUpTo(_, _)
SeqsUpTo(S, n) ==
    IF n = 0 THEN {<<>>}
    ELSE LET shorter == SeqsUpTo(S, n - 1)
         IN shorter \cup {Append(q, x) : q \in shorter, x \in S}

RECURSIVE Rep(_, _)
Rep(x, n) == IF n = 0 THEN <<>> ELSE <<x>> \o Rep(x, n - 1)

Unset == <<"<unset>">>

ArgPath == <<"hist.txt">>

\* the values tried for each variable main() branches on (HISTCONTROL and
\* HISTORY_IGNORE, which only select a tip or are only listed, stay unset)
EnvDomain ==
    [SHELL : {Unset, <<"/", "bin", "/", "bash">>, <<"/", "bin", "/", "sh">>,
              <<"/", "bin", "/", "zsh">>, <<"/", "bin", "/", "fish">>},
     HISTFILE : {Unset, <<>>, <<".zhist">>, <<"/", "zhist">>},
     HISTSIZE : {Unset, <<>>, <<"x">>, <<"9", "0", "0", "0">>},
     HISTFILESIZE : {Unset, <<"x">>, <<"5", "0", "0", "0">>},
     SAVEHIST : {Unset, <<"x">>},
     HISTIGNORE : {Unset, <<"l", "s", ":", "l", " ", "a">>}]

\* the environment a choice of EnvDomain stands for: unset variables are absent
MakeEnviron(e) == [v \in {n \in DOMAIN e : e[n] # Unset} |-> e[v]]

CandidatePaths ==
    {ArgPath, path_join(Home, <<".zhist">>), <<"/", "zhist">>,
     path_join(Home, <<".bash_history">>), path_join(Home, <<".history">>)}

FileSystems == {{}, CandidatePaths} \cup {{q} : q \in CandidatePaths}

PipeLines == {<<>>, <<"l", " ", "a">>, <<"l", "s">>}

ShoptOutcomes ==
    {[ok |-> FALSE, out |-> <<>>],
     [ok |-> TRUE, out |-> <<"\t", "o", "n", "\n">>],
     [ok |-> TRUE, out |-> <<"\t", "o", "f", "f", "\n">>]}

SetoptOutcomes ==
    {[ok |-> FALSE, out |-> <<>>],
     [ok |-> TRUE, out |-> <<"histignorealldups", "\n">>],
     [ok |-> TRUE, out |-> <<"noappendhistory", "\n">>]}

AliasOutcomes ==
    {[ok |-> FALSE, out |-> <<>>],
     [ok |-> TRUE, out |-> <<>>],
     [ok |-> TRUE, out |-> <<"l", " ", "a">>]}

\* the outcomes of a check_output call only the shells of family make
CallsOf(family, outcomes) ==
    IF _shell \in family THEN outcomes ELSE {[ok |-> FALSE, out |-> <<>>]}

\* paragraphs of the linter's output: text and code occurrences
Paragraphs ==
    SeqsUpTo(Codes \cup {"text"}, 2)
    \cup {Rep(c, NUM_SHELLCHECK) \o <<d>> : c \in Codes, d \in Codes}

\* what the linter did in a run of main(): absent, exit status 0, or a
\* non-zero status with its output split into paragraphs
ShellcheckOutcomes ==
    {[installed |-> FALSE, clean |-> FALSE, paragraphs |-> <<>>],
     [installed |-> TRUE, clean |-> TRUE, paragraphs |-> <<>>],
     [installed |-> TRUE, clean |-> FALSE, paragraphs |-> <<<<"text", "2006">>>>],
     [installed |-> TRUE, clean |-> FALSE,
      paragraphs |-> <<<<"text", "2006">>, <<"2006", "text">>>>]}

(***************************************************************************)
(* The run of main().                                                      *)
(***************************************************************************)
MainIdle ==
    /\ argv = <<>>
    /\ environ = <<>>
    /\ files = {}
    /\ history_file = <<>>
    /\ commands = <<>>
    /\ sections = <<>>
    /\ warns = 0
    /\ tips = <<>>
    /\ exit_status = -1
    /\ error = ""
    /\ subproc_failed = FALSE
    /\ stats = <<>>
    /\ sc_report = <<>>

Init ==
    /\ argv \in {<<<<"command_line_lint.py">>>>, <<<<"command_line_lint.py">>, ArgPath>>}
    /\ environ \in {MakeEnviron(e) : e \in EnvDomain}
    /\ files \in FileSystems
    /\ pc = "start"
    /\ history_file = <<>>
    /\ commands = <<>>
    /\ sections = <<>>
    /\ warns = 0
    /\ tips = <<>>
    /\ exit_status = -1
    /\ error = ""
    /\ subproc_failed = FALSE
    /\ stats = <<>>
    /\ sc_report = <<>>
    /\ fin = <<>>
    /\ fout = <<>>

\* where main() is after a section that ended with exception e ("" for none)
NextPc(e, after) ==
    IF e = "" THEN after ELSE IF e = "SystemExit" THEN "exited" ELSE "crashed"

\* sys.exit(1) and an uncaught exception both end the process with status 1
NextStatus(e) == IF e = "" THEN exit_status ELSE 1

ReportEnvironment ==
    /\ pc = "start"
    /\ \E roth \in BOOLEAN, shopt \in CallsOf(BashLike, ShoptOutcomes),
          setopt1 \in CallsOf({<<"zsh">>}, SetoptOutcomes),
          setopt2 \in CallsOf({<<"zsh">>}, SetoptOutcomes) :
         LET r == report_environment(roth, shopt, setopt1, setopt2)
             h == _history_file
         IN /\ sections' = Append(sections, "environment")
            /\ tips' = tips \o r.tips
            /\ warns' = warns + r.warns
            /\ history_file' = h.path
            /\ subproc_failed' = r.subfail
            /\ error' = r.raised
            /\ exit_status' = NextStatus(r.raised)
            /\ pc' = NextPc(r.raised, "env_done")
    /\ UNCHANGED <<argv, environ, files, commands, stats, sc_report, fin, fout>>

\* history_file = _history_file() and the read of the file
LoadHistory ==
    /\ pc = "env_done"
    /\ LET h == _history_file IN
       /\ history_file' = h.path
       /\ warns' = warns + h.warns
       /\ error' = h.raised
       /\ exit_status' = NextStatus(h.raised)
       /\ pc' = NextPc(h.raised, "loaded")
       /\ IF h.raised = ""
          THEN \E content \in SeqsUpTo(PipeLines, MaxPipeLines) :
                   commands' = load_commands(readlines(content))
          ELSE commands' = commands
    /\ UNCHANGED <<argv, environ, files, sections, tips, subproc_failed, stats,
                   sc_report, fin, fout>>

ReportFavorites ==
    /\ pc = "loaded"
    /\ sections' = Append(sections, "favorites")
    /\ stats' = stats \o report_favorites(commands, NUM_COMMANDS)
    /\ pc' = "favorites_done"
    /\ UNCHANGED <<argv, environ, files, history_file, commands, warns, tips,
                   exit_status, error, subproc_failed, sc_report, fin, fout>>

ReportCommandsWithArguments ==
    /\ pc = "favorites_done"
    /\ \E alias \in AliasOutcomes :
         LET top == most_common(Counter(commands), NUM_WITH_ARGUMENTS)
             r == report_commands_with_arguments(commands, NUM_WITH_ARGUMENTS, alias)
         IN /\ sections' = Append(sections, "with_arguments")
            /\ stats' = stats \o ArgumentsStats(top, Len(commands), alias)
            /\ tips' = tips \o r.tips
            /\ subproc_failed' = r.subfail
            /\ error' = r.raised
            /\ exit_status' = NextStatus(r.raised)
            /\ pc' = NextPc(r.raised, "with_arguments_done")
    /\ UNCHANGED <<argv, environ, files, history_file, commands, warns,
                   sc_report, fin, fout>>

ReportMiscellaneous ==
    /\ pc = "with_arguments_done"
    /\ sections' = Append(sections, "miscellaneous")
    /\ tips' = tips \o report_miscellaneous(commands).tips
    /\ pc' = "miscellaneous_done"
    /\ UNCHANGED <<argv, environ, files, history_file, commands, warns,
                   exit_status, error, subproc_failed, stats, sc_report, fin, fout>>

\* the last section; main() returns and the process ends with status 0
ReportShellcheck ==
    /\ pc = "miscellaneous_done"
    /\ \E sc \in ShellcheckOutcomes :
         sc_report' = report_shellcheck(sc, NUM_SHELLCHECK)
    /\ sections' = Append(sections, "shellcheck")
    /\ exit_status' = 0
    /\ pc' = "done"
    /\ UNCHANGED <<argv, environ, files, history_file, commands, warns, tips,
                   error, subproc_failed, stats, fin, fout>>

Next ==
    \/ ReportEnvironment
    \/ LoadHistory
    \/ ReportFavorites
    \/ ReportCommandsWithArguments
    \/ ReportMiscellaneous
    \/ ReportShellcheck

Spec == Init /\ [][Next]_vars

(***************************************************************************)
(* The helpers applied to inputs drawn from bounded sets: fin is the       *)
(* input, fout the result once pc says the helper has returned.            *)
(***************************************************************************)
\* lines of a history file, without their terminator
LoadLines ==
    {<<>>, <<" ">>, <<"a">>, <<"#", "a">>, <<" ", "#", "a">>, <<"a", " ">>,
     <<"\t", "a", " ", "b">>}

InitLoad ==
    /\ MainIdle
    /\ pc = "load_call"
    /\ fin \in SeqsUpTo(LoadLines, MaxLines)
    /\ fout = <<>>

Load ==
    /\ pc = "load_call"
    /\ fout' = load_commands(readlines(fin))
    /\ pc' = "load_return"
    /\ UNCHANGED <<mainVars, fin>>

SpecLoad == InitLoad /\ [][Load]_vars

\* commands as the loader yields them: trimmed and not empty
FavCmds ==
    {<<"a", " ", "x">>, <<"b", " ", "x">>, <<"a">>, <<"a", " ", "y">>,
     <<"c", "\t", "x", " ", "y">>}

InitFavorites ==
    /\ MainIdle
    /\ pc = "favorites_call"
    /\ fin \in [commands : SeqsUpTo(FavCmds, MaxFavCmds), top_n : {1, 2, NUM_COMMANDS}]
    /\ fout = <<>>

Favorites ==
    /\ pc = "favorites_call"
    /\ fout' = report_favorites(fin.commands, fin.top_n)
    /\ pc' = "favorites_return"
    /\ UNCHANGED <<mainVars, fin>>

SpecFavorites == InitFavorites /\ [][Favorites]_vars

AliasCmdChars == {"l", " ", "\\"}

AliasCmds == {c \in SeqsUpTo(AliasCmdChars, MaxAliasLen) : c # <<>> /\ strip(c) = c}

\* what the shell prints for one alias named a
AliasLine(c) == <<"a", "=", "'">> \o c \o <<"'", "\n">>

\* alias lists: none defined, or one alias
AliasDumps == {<<>>, AliasLine(<<"l", " ", "l">>), AliasLine(<<"l", " ", "\\", "l">>)}

\* (count, total) of a listed command: 1 <= count <= total
CountTotals == {<<1, 1>>, <<2, 2>>, <<2, 40>>, <<2, 41>>, <<3, 61>>}

InitAlias ==
    /\ MainIdle
    /\ pc = "alias_call"
    /\ \E c \in AliasCmds, n \in CountTotals,
          a \in {[ok |-> FALSE, out |-> <<>>]} \cup {[ok |-> TRUE, out |-> d] : d \in AliasDumps} :
         fin = [cmd |-> c, count |-> n[1], total |-> n[2], alias |-> a]
    /\ fout = <<>>

Alias ==
    /\ pc = "alias_call"
    /\ fout' = _lint_command_alias(fin.cmd, fin.count, fin.total, fin.alias)
    /\ pc' = "alias_return"
    /\ UNCHANGED <<mainVars, fin>>

SpecAlias == InitAlias /\ [][Alias]_vars

RenameArgs == SeqsUpTo({"a", "b"}, MaxArgLen) \ {<<>>}

RenameGaps == {<<" ">>, <<" ", " ">>}

\* two, three and four token commands, tokens one or two spaces apart
RenameCmds ==
    LET heads == {<<"m", "v">>, <<"c", "p">>, <<"l", "s">>}
        three == {h \o g1 \o x \o g2 \o y :
                     h \in heads, g1 \in RenameGaps, x \in RenameArgs,
                     g2 \in RenameGaps, y \in RenameArgs}
    IN three
       \cup {h \o <<" ">> \o x : h \in heads, x \in RenameArgs}
       \cup {c \o <<" ">> \o x : c \in {t \in three : Len(t) <= 6}, x \in {<<"a">>}}

InitRename ==
    /\ MainIdle
    /\ pc = "rename_call"
    /\ fin \in RenameCmds
    /\ fout = <<>>

Rename ==
    /\ pc = "rename_call"
    /\ fout' = _lint_command_rename(fin)
    /\ pc' = "rename_return"
    /\ UNCHANGED <<mainVars, fin>>

SpecRename == InitRename /\ [][Rename]_vars

\* the loop of report_shellcheck, one paragraph a step: fout.before[k] is
\* old_errors when paragraph k is reached, fout.printed[k] whether it is printed
InitShellcheck ==
    /\ MainIdle
    /\ pc = "shellcheck_loop"
    /\ fin \in SeqsUpTo(Paragraphs, MaxParagraphs) \ {<<>>}
    /\ fout = [old_errors |-> {}, printed |-> <<>>, before |-> <<>>]

ShellcheckParagraph ==
    /\ pc = "shellcheck_loop"
    /\ LET k == Len(fout.printed) + 1
           r == sc_step(fout.old_errors, fin[k], NUM_SHELLCHECK)
       IN /\ fout' = [old_errors |-> r.old_errors,
                      printed |-> Append(fout.printed, r.printed),
                      before |-> Append(fout.before, fout.old_errors)]
          /\ pc' = IF k = Len(fin) THEN "shellcheck_return" ELSE "shellcheck_loop"
    /\ UNCHANGED <<mainVars, fin>>

SpecShellcheck == InitShellcheck /\ [][ShellcheckParagraph]_vars

(***************************************************************************)
(* Claims about the run of main(), checked under Spec.                     *)
(***************************************************************************)
HistfileGiven == "HISTFILE" \in DOMAIN environ /\ environ["HISTFILE"] # <<>>

\* C1: when the resolved history file path does not exist, main() ends with
\* exit status 1 after exactly one warning line, and no report section after
\* the one that detected it (the environment report, whose lint resolves
\* the path first) is run.
C1_MissingHistoryExits ==
    (pc # "start" /\ HistoryPath.raised = "" /\ HistoryPath.path \notin files)
    => /\ pc = "exited"
       /\ exit_status = 1
       /\ warns = 1
       /\ sections = <<"environment">>
       /\ stats = <<>>
       /\ sc_report = <<>>

C1_Witness ==
    /\ pc = "exited"
    /\ Len(argv) > 1
    /\ argv[2] \notin files
    /\ files # {}
    /\ warns = 1
    /\ exit_status = 1

\* C2: with an empty Command Sequence, report_favorites and
\* report_commands_with_arguments complete without an error and the later
\* sections still run.
C2_EmptyHistoryCompletes ==
    (commands = <<>> /\ \E k \in DOMAIN sections : sections[k] = "with_arguments")
    => error = ""

C9_SubprocessFailureSkipped ==
    subproc_failed => (pc # "crashed" /\ error = "")

\* C10: for every value of the size variables, unset, empty and non-numeric
\* included, the size checks complete without error and treat a malformed
\* or absent value as 0, so the warning for a value below the floor is given.
C10_MalformedSizeIsZero ==
    LET ReadAsZero(var) == var \notin DOMAIN environ \/ int(environ[var]).raised # ""
        Tipped(var) == \E k \in DOMAIN tips : tips[k] = var
    IN (pc # "start" /\ _history_file.raised = "" /\ ~ShellRaises)
       => /\ error # "ValueError"
          /\ ReadAsZero("HISTSIZE") => Tipped("HISTSIZE")
          /\ (_shell \in BashLike /\ ReadAsZero("HISTFILESIZE")) => Tipped("HISTFILESIZE")
          /\ (_shell = <<"zsh">> /\ ReadAsZero("SAVEHIST")) => Tipped("SAVEHIST")

(***************************************************************************)
(* C4, checked under SpecLoad.                                             *)
(***************************************************************************)
\* a line the Command Sequence is to keep: trimmed it is neither empty nor
\* a comment
Qualifies(line) == strip(line) # <<>> /\ Head(strip(line)) # "#"

\* C4: every element of the loaded Command Sequence is trimmed, non-empty
\* and does not start with '#', and the elements are the qualifying lines of
\* the file in file order, duplicates kept.
C4_LoadedCommands ==
    pc = "load_return"
    => /\ \A k \in DOMAIN fout :
            /\ fout[k] # <<>>
            /\ Head(fout[k]) \notin Whitespace
            /\ fout[k][Len(fout[k])] \notin Whitespace
            /\ Head(fout[k]) # "#"
       /\ LET kept == SelectSeq(fin, Qualifies)
          IN fout = [k \in DOMAIN kept |-> strip(kept[k])]

(***************************************************************************)
(* C5, checked under SpecRename.                                           *)
(***************************************************************************)
\* C5: whenever _lint_command_rename prints a suggestion, the suggested
\* command "<mv|cp> <prefix>{<rest1>,<rest2>}" is at most 80% as long as the
\* original command, which has exactly 3 tokens, starts with mv or cp, and
\* has two arguments sharing a common prefix.
C5_RenameShortEnough ==
    (pc = "rename_return" /\ fout.fired)
    => /\ 5 * Len(fout.shown) <= 4 * Len(fin)
       /\ Len(split(fin)) = 3
       /\ split(fin)[1] \in {<<"m", "v">>, <<"c", "p">>}
       /\ Head(split(fin)[2]) = Head(split(fin)[3])

(***************************************************************************)
(* C6, checked under SpecShellcheck.                                       *)
(***************************************************************************)
CodesOf(paragraph) == {c \in Codes : \E k \in DOMAIN paragraph : paragraph[k] = c}

\* C6: a paragraph is printed iff it holds a code not seen before in the
\* run; when it is printed all of its codes are marked seen; so a later
\* paragraph whose codes all occurred in earlier printed paragraphs is
\* suppressed.
C6_Deduplication ==
    \A k \in DOMAIN fout.printed :
        /\ fout.printed[k] <=> ~(CodesOf(fin[k]) \subseteq fout.before[k])
        /\ fout.printed[k] => CodesOf(fin[k]) \subseteq fout.old_errors
        /\ (CodesOf(fin[k]) \subseteq
               UNION {CodesOf(fin[j]) : j \in {i \in 1..(k - 1) : fout.printed[i]}})
           => ~fout.printed[k]

(***************************************************************************)
(* C7, checked under SpecAlias.                                            *)
(***************************************************************************)
\* C7: _lint_command_alias fires iff the command is not contained in the
\* shell's alias list, count >= 2, total/count <= 20 and the command
\* contains a space.
C7_AliasFiresIff ==
    (pc = "alias_return" /\ fin.alias.ok)
    => (fout.fired <=> /\ ~contains(fin.cmd, fin.alias.out)
                       /\ fin.count >= 2
                       /\ fin.total <= 20 * fin.count
                       /\ \E k \in DOMAIN fin.cmd : fin.cmd[k] = " ")

(***************************************************************************)
(* C8, checked under SpecFavorites.                                        *)
(***************************************************************************)
HasSpace(cmd) == \E k \in DOMAIN cmd : cmd[k] = " "

\* the first whitespace-delimited token of a trimmed command
PrefixOf(cmd) ==
    LET stops == {k \in DOMAIN cmd : cmd[k] \in Whitespace}
    IN IF stops = {} THEN cmd
       ELSE SubSeq(cmd, 1, (CHOOSE k \in stops : \A j \in stops : k <= j) - 1)

\* positions of the commands with arguments whose prefix is p
Uses(p, cmds) == {k \in DOMAIN cmds : HasSpace(cmds[k]) /\ PrefixOf(cmds[k]) = p}

FirstUse(p, cmds) == CHOOSE k \in Uses(p, cmds) : \A j \in Uses(p, cmds) : k <= j

\* p ranks before q: more uses, or as many and met first
RanksBefore(p, q, cmds) ==
    \/ Cardinality(Uses(p, cmds)) > Cardinality(Uses(q, cmds))
    \/ /\ Cardinality(Uses(p, cmds)) = Cardinality(Uses(q, cmds))
       /\ FirstUse(p, cmds) < FirstUse(q, cmds)

\* C8: report_favorites lists at most K prefixes, counting only commands
\* that contain a space, by count descending with equal counts in
\* first-encountered order, each with its count and with total = the length
\* of the whole Command Sequence.
C8_FavoritesRanking ==
    pc = "favorites_return"
    => LET cmds == fin.commands
           used == {PrefixOf(cmds[k]) : k \in {j \in DOMAIN cmds : HasSpace(cmds[j])}}
           listed == {fout[k].cmd : k \in DOMAIN fout}
       IN /\ Len(fout) = Min(fin.top_n, Cardinality(used))
          /\ listed \subseteq used
          /\ \A k \in DOMAIN fout :
                /\ fout[k].count = Cardinality(Uses(fout[k].cmd, cmds))
                /\ fout[k].total = Len(cmds)
          /\ \A i \in DOMAIN fout : \A j \in DOMAIN fout :
                i < j => RanksBefore(fout[i].cmd, fout[j].cmd, cmds)
          /\ \A q \in used \ listed : \A k \in DOMAIN fout :
                RanksBefore(fout[k].cmd, q, cmds)

\* two listed prefixes tie, a third is cut off by top_n, and a command
\* without arguments is in the sequence
C8_Witness ==
    /\ pc = "favorites_return"
    /\ fin.top_n = 2
    /\ Len(fout) = 2
    /\ fout[1].count = fout[2].count
    /\ \E k \in DOMAIN fin.commands : ~HasSpace(fin.commands[k])
    /\ \E k \in DOMAIN fin.commands :
          HasSpace(fin.commands[k])
          /\ PrefixOf(fin.commands[k]) \notin {fout[1].cmd, fout[2].cmd}

====
